---- MODULE Spec2Model ----
(***************************************************************************)
(* State-machine model of TIF2PDF.py (class ImageConverterGUI): the image   *)
(* catalog kept by the Tk presentation thread, the conversion worker       *)
(* thread started by start_conversion, and the Tk event queue fed by        *)
(* root.after(0, ...).                                                      *)
(*                                                                         *)
(* Conventions.  List indices are 0-based as in the source; TLA+ sequences  *)
(* are 1-based, so entry i of a list l is l[i + 1].  User-visible texts are *)
(* modelled by ASCII tags, the original text is given in the comments.      *)
(* The rows selected in the list box are an input of the handler that reads *)
(* them (listbox.curselection()): the user selects any rows before pressing *)
(* a button.  A handler of the presentation thread is one atomic step.      *)
(***************************************************************************)
EXTENDS Integers, Sequences, FiniteSets, TLC

\* ------------------------------------------------------------------ bounds
\* Files that may exist in the scanned folder (paths ordered as the numbers).
MaxFiles == 2
\* Files of the folder in the catalog-only specification SpecCatalog.
MaxCatFiles == 4
\* Worker threads that can exist at the same time (thread slots).
MaxThreads == 2
\* Pending root.after callbacks.
MaxQueue == 2
\* Handlers that edit the catalog or the output settings run in one session.
MaxUserOps == 2
\* Largest width and height of an image, in pixels.
MaxPixels == 6

Files == 1..MaxFiles
CatFiles == 1..MaxCatFiles
Threads == 1..MaxThreads

VARIABLES
    image_files,      \* self.image_files: the catalog, a list of paths
    selected_format,  \* self.selected_format: "PDF" | "PPT"
    output_entry,     \* text of self.output_entry
    convert_btn,      \* state of self.convert_btn: "normal" | "disabled"
    progress_var,     \* self.progress_var as a fraction <<num, den>> of 100
    status_label,     \* text of self.status_label (without the file name)
    log_text,         \* self.log_text: "" while no line has been inserted, else "text"
    warning,          \* modal warning box opened by start_conversion
    after_queue,      \* callbacks registered with root.after(0, ...)
    w,                \* worker threads: slot -> thread state
    ops,              \* number of editing handlers run so far
    last_op           \* last catalog handler run: its inputs and the rows it selects

vars == <<image_files, selected_format, output_entry, convert_btn,
          progress_var, status_label, log_text, warning, after_queue, w,
          ops, last_op>>

uiVars == <<progress_var, status_label, log_text>>

\* ----------------------------------------------------------------- helpers
Min(S) == CHOOSE x \in S : \A y \in S : x <= y
Max(S) == CHOOSE x \in S : \A y \in S : x >= y

RECURSIVE SortedSeq(_)
\* The elements of a finite set of numbers in ascending order: sorted(...),
\* and the order in which listbox.curselection() reports the selected rows.
SortedSeq(S) ==
    IF S = {} THEN <<>> ELSE <<Min(S)>> \o SortedSeq(S \ {Min(S)})

Reverse(s) == [k \in 1..Len(s) |-> s[Len(s) + 1 - k]]

\* l[i], l[j] = l[j], l[i]  (0-based i, j)
Swap(l, i, j) == [l EXCEPT ![i + 1] = l[j + 1], ![j + 1] = l[i + 1]]

\* del l[i]  (0-based i)
Del(l, i) == SubSeq(l, 1, i) \o SubSeq(l, i + 2, Len(l))

\* The rows of a list of n entries.
RowsOf(n) == 0..(n - 1)

\* ------------------------------------------------------------ output path
\* A path text is a stem, a sequence over the characters " " and "a", followed
\* by an extension "", ".pdf" or ".pptx".
RECURSIVE StripLeft(_)
StripLeft(s) ==
    IF s # <<>> /\ Head(s) = " " THEN StripLeft(Tail(s)) ELSE s

RECURSIVE StripRight(_)
StripRight(s) ==
    IF s # <<>> /\ s[Len(s)] = " " THEN StripRight(SubSeq(s, 1, Len(s) - 1)) ELSE s

\* strip() that removes nothing.
StripNothing(p) == p

\* str.strip(): leading and trailing white space removed.  White space before
\* an extension is not trailing.
Strip(p) ==
    [stem |-> IF p.ext = "" THEN StripRight(StripLeft(p.stem)) ELSE StripLeft(p.stem),
     ext  |-> p.ext]

EmptyText == [stem |-> <<>>, ext |-> ""]

\* os.path.splitext(p)[0] + e
WithExt(p, e) == [stem |-> p.stem, ext |-> e]

FormatExt(f) == IF f = "PDF" THEN ".pdf" ELSE ".pptx"

\* What the user may type into the output entry (or pick in browse_output).
OutputInputs ==
    { EmptyText,
      [stem |-> <<" ">>, ext |-> ""],
      [stem |-> <<" ", " ">>, ext |-> ""],
      [stem |-> <<"a">>, ext |-> ".pdf"] }

\* The path scan_folder derives from the first image: <dir>/<name>_merged<ext>.
AutoOutput(f) == [stem |-> <<"a">>, ext |-> FormatExt(f)]

\* ---------------------------------------------------------------- options
Formats == {"PDF", "PPT"}

\* ------------------------------------------------------------- the folder
\* SUPPORTED_FORMATS, by extension class of a file of the folder: odd files
\* are .png files, even files are .tif files.
Ext(f) == IF f % 2 = 1 THEN ".png" ELSE ".tif"

Filters == {"all", "pngjpg", "tif", "bmp"}

\* scan_folder's filter: the extensions that are globbed under a filter.
Globbed(filter, ext) ==
    CASE filter = "pngjpg" -> ext \in {".jpg", ".jpeg", ".png"}
      [] filter = "tif"    -> ext \in {".tif", ".tiff"}
      [] filter = "bmp"    -> ext \in {".bmp"}
      [] OTHER             -> TRUE

\* The texts of the folder entry: "" , white space, a path that does not
\* exist, a path of a regular file, a path of a directory.
Folders == {"empty", "blank", "missing", "file", "dir"}
FolderStripEmpty(d) == d \in {"empty", "blank"}
IsDir(d) == d = "dir"

\* What the globs of a scan can collect: for a filter and the files present
\* in the folder, the files whose extension the filter lets through (as a
\* set: scan_folder removes the duplicates).
Found(files) ==
    {{f \in present : Globbed(filter, Ext(f))} :
        filter \in Filters, present \in SUBSET files}
FoundFiles == Found(Files)
FoundCatFiles == Found(CatFiles)

\* ---------------------------------------------------------- event queue
\* The callbacks: log_text.insert (the text of the line is not kept),
\* progress_var.set(p) with p = num / den * 100, convert_btn.config(NORMAL).
LogEvent == [kind |-> "log", num |-> 0, den |-> 1]
ProgressEvent(n, total) == [kind |-> "progress", num |-> n, den |-> total]
EnableEvent == [kind |-> "enable", num |-> 0, den |-> 1]

\* self.log(message): root.after(0, insert) and root.after(0, see); the two
\* callbacks are one queue element (the scroll position is not modelled).
log(message) == after_queue' = Append(after_queue, LogEvent)

\* Room in the queue for a callback of a handler of the presentation thread.
HandlerRoom == Len(after_queue) < MaxQueue - 1
\* Room in the queue for a callback of a worker thread.
WorkerRoom == Len(after_queue) < MaxQueue

\* --------------------------------------------------------- worker threads
\* A thread slot: pc is the position of the thread in convert_images, out its
\* argument output_file, fmt its local format_type, exc the exception caught.
\* While the exporter runs: total, i, cur are its locals total_files, the
\* index of the list iterator and filepath; iter tells whether the iterator
\* exists and whether its list still is self.image_files ("shared") or was
\* replaced by a scan ("detached", the list is then kept in list); pages is
\* the document being built.  saved tells whether the document was written.
\* attempts, emitted, outcomes and req record what happened: the entries
\* attempted, the indices of the progress callbacks registered, the outcomes
\* reported and the request as start_conversion saw it.
IdleThread ==
    [pc |-> "idle", out |-> EmptyText, fmt |-> "PDF",
     total |-> 0, i |-> 0, iter |-> "unbound", list |-> <<>>, cur |-> 0,
     attempts |-> <<>>, pages |-> <<>>, emitted |-> <<>>, exc |-> "none",
     outcomes |-> <<>>, saved |-> FALSE,
     req |-> [entries |-> <<>>, fmt |-> "PDF"]]

Active(t) == w[t].pc # "idle"

\* Control leaves convert_to_pdf / convert_to_ppt: its locals are gone.
ExitExporter(rec) ==
    [rec EXCEPT !.total = 0, !.i = 0, !.iter = "unbound", !.list = <<>>,
                !.cur = 0, !.pages = <<>>, !.attempts = <<>>, !.emitted = <<>>,
                !.req = IdleThread.req]

\* An exception leaves the exporter for the except clause of convert_images.
Raise(rec, cause) == [ExitExporter(rec) EXCEPT !.pc = "except", !.exc = cause]

\* A modal message box is open: the main window takes no input.
DialogOpen ==
    \/ warning # "none"
    \/ \E t \in Threads : w[t].pc \in {"showinfo", "showerror"}

\* The list object a worker iterates on.
IterList(t) == IF w[t].iter = "detached" THEN w[t].list ELSE image_files

NoOp ==
    [op |-> "none", files |-> <<>>, sel |-> {}, rows |-> 0, after |-> {},
     arg |-> ""]

\* ------------------------------------------------------------------- Init
Init ==
    /\ image_files = <<>>
    /\ selected_format = "PDF"
    /\ output_entry = EmptyText
    /\ convert_btn = "normal"
    /\ progress_var = <<0, 1>>
    /\ status_label = "ready"
    /\ log_text = ""
    /\ warning = "none"
    /\ after_queue = <<>>
    /\ w = [t \in Threads |-> IdleThread]
    /\ ops = 0
    /\ last_op = NoOp

\* -------------------------------------------------------- the image catalog
\* A handler that edits the catalog or the output settings can run.
CanEdit == ~DialogOpen /\ ops < MaxUserOps

\* What a catalog handler read and which rows it leaves selected, kept when
\* rec is set: the handler, the catalog before, the rows selected before, the
\* number of rows of the list box and the rows selected afterwards; arg is
\* the text of the folder entry that scan_folder read.
RecordArg(rec, op, selected, rows, after, arg) ==
    last_op' = IF rec
               THEN [op |-> op, files |-> image_files, sel |-> selected,
                     rows |-> rows, after |-> after, arg |-> arg]
               ELSE last_op

Record(rec, op, selected, rows, after) ==
    RecordArg(rec, op, selected, rows, after, "")

RECURSIVE SwapUpEach(_, _)
\* for i in selected: if i > 0: swap entries i and i-1
SwapUpEach(files, idxs) ==
    IF idxs = <<>> THEN files
    ELSE SwapUpEach(IF Head(idxs) > 0
                    THEN Swap(files, Head(idxs), Head(idxs) - 1)
                    ELSE files,
                    Tail(idxs))

RECURSIVE SwapDownEach(_, _)
\* for i in reversed(selected): if i < len - 1: swap entries i and i+1
SwapDownEach(files, idxs) ==
    IF idxs = <<>> THEN files
    ELSE SwapDownEach(IF Head(idxs) < Len(files) - 1
                      THEN Swap(files, Head(idxs), Head(idxs) + 1)
                      ELSE files,
                      Tail(idxs))

RECURSIVE DelEach(_, _)
\* for i in reversed(selected): if i < len: del entry i
DelEach(files, idxs) ==
    IF idxs = <<>> THEN files
    ELSE DelEach(IF Head(idxs) < Len(files) THEN Del(files, Head(idxs)) ELSE files,
                 Tail(idxs))

\* move_up that returns at once on an empty selection only.
MoveUpReturnsOnEmpty(files, selected) == selected = {}

\* move_up returns at once on an empty selection or one that holds row 0.
MoveUpReturns(files, selected) == selected = {} \/ Min(selected) = 0

\* The catalog after move_up.
move_up_list(files, selected) ==
    IF MoveUpReturns(files, selected) THEN files
    ELSE SwapUpEach(files, SortedSeq(selected))

\* move_down returns at once on an empty selection or one that holds the last
\* index of the catalog.
MoveDownReturns(files, selected) ==
    selected = {} \/ Max(selected) = Len(files) - 1

\* The catalog after move_down.
move_down_list(files, selected) ==
    IF MoveDownReturns(files, selected) THEN files
    ELSE SwapDownEach(files, Reverse(SortedSeq(selected)))

\* remove_selected that deletes from the lowest selected row to the highest.
remove_list_ascending(files, selected) == DelEach(files, SortedSeq(selected))

\* The catalog after remove_selected.
remove_list(files, selected) == DelEach(files, Reverse(SortedSeq(selected)))

\* The rows selected after reverse_selection in a list box of `rows` rows:
\* every row that was not selected is added to the selection.
reverse_rows(rows, selected) ==
    selected \cup {i \in RowsOf(rows) : i \notin selected}

\* reverse_selection: only the selection of the list box changes.
reverse_selection(rec, rows, selected) ==
    /\ ~DialogOpen
    /\ rows \in 0..Len(image_files)
    /\ selected \subseteq RowsOf(rows)
    /\ Record(rec, "reverse_selection", selected, rows, reverse_rows(rows, selected))
    /\ UNCHANGED <<image_files, selected_format, output_entry, convert_btn,
                   uiVars, warning, after_queue, w, ops>>

\* move_up with the rows `selected`.  update_listbox rebuilds the rows (which
\* clears the selection) and calls os.path.getsize on every file: `shown`
\* tells whether it completes; when it raises, the handler ends there and the
\* selection is not restored.
move_up(rec, selected, shown) ==
    /\ CanEdit
    /\ selected \subseteq RowsOf(Len(image_files))
    /\ ops' = ops + 1
    /\ IF MoveUpReturns(image_files, selected)
       THEN /\ UNCHANGED image_files
            /\ Record(rec, "move_up", selected, Len(image_files), selected)
       ELSE /\ image_files' = move_up_list(image_files, selected)
            /\ Record(rec, "move_up", selected, Len(image_files),
                      IF shown THEN {IF i > 0 THEN i - 1 ELSE i : i \in selected}
                               ELSE {})
    /\ UNCHANGED <<selected_format, output_entry, convert_btn, uiVars, warning,
                   after_queue, w>>

move_down(rec, selected, shown) ==
    /\ CanEdit
    /\ selected \subseteq RowsOf(Len(image_files))
    /\ ops' = ops + 1
    /\ IF MoveDownReturns(image_files, selected)
       THEN /\ UNCHANGED image_files
            /\ Record(rec, "move_down", selected, Len(image_files), selected)
       ELSE /\ image_files' = move_down_list(image_files, selected)
            /\ Record(rec, "move_down", selected, Len(image_files),
                      IF shown
                      THEN {IF i < Len(image_files) - 1 THEN i + 1 ELSE i :
                               i \in selected}
                      ELSE {})
    /\ UNCHANGED <<selected_format, output_entry, convert_btn, uiVars, warning,
                   after_queue, w>>

\* remove_selected with the rows `selected`; the removal is logged when
\* update_listbox completes.
remove_selected(rec, selected, shown) ==
    /\ CanEdit
    /\ HandlerRoom
    /\ selected \subseteq RowsOf(Len(image_files))
    /\ ops' = ops + 1
    /\ IF selected = {}
       THEN /\ UNCHANGED <<image_files, after_queue>>
            /\ Record(rec, "remove_selected", selected, Len(image_files), selected)
       ELSE /\ image_files' = remove_list(image_files, selected)
            /\ Record(rec, "remove_selected", selected, Len(image_files), {})
            /\ IF shown THEN log("removed") ELSE UNCHANGED after_queue
    /\ UNCHANGED <<selected_format, output_entry, convert_btn, uiVars, warning, w>>

\* scan_folder with the folder entry holding `folder` and `found` the files
\* its globs collect.  Rebinding self.image_files leaves a worker that
\* iterates on the old list with it.
\* When update_listbox raises, nothing is logged and the output path is not set.
scan_folder(rec, folder, found, shown) ==
    /\ CanEdit
    /\ HandlerRoom
    /\ ops' = ops + 1
    /\ RecordArg(rec, "scan_folder", {}, Len(image_files), {}, folder)
    /\ IF FolderStripEmpty(folder) \/ ~IsDir(folder)
       THEN /\ log("scan_error")
            /\ found = {} /\ shown
            /\ UNCHANGED <<image_files, output_entry, w>>
       ELSE LET new == SortedSeq(found) IN
            /\ image_files' = new
            /\ w' = [t \in Threads |->
                        IF w[t].iter = "shared"
                        THEN [w[t] EXCEPT !.iter = "detached", !.list = image_files]
                        ELSE w[t]]
            /\ IF shown
               THEN /\ log("scan_done")
                    /\ output_entry' = IF new # <<>>
                                       THEN AutoOutput(selected_format)
                                       ELSE output_entry
               ELSE UNCHANGED <<after_queue, output_entry>>
    /\ UNCHANGED <<selected_format, convert_btn, uiVars, warning>>

\* ------------------------------------------------------- the output settings
\* The user types the output path or picks it in browse_output.
browse_output(p) ==
    /\ CanEdit
    /\ ops' = ops + 1
    /\ p # output_entry
    /\ output_entry' = p
    /\ UNCHANGED <<image_files, selected_format, convert_btn, uiVars, warning,
                   after_queue, w, last_op>>

\* A radio button sets selected_format and calls on_format_change, which
\* replaces the extension of a non-empty output path.
on_format_change(f) ==
    /\ CanEdit
    /\ ops' = ops + 1
    /\ selected_format' = f
    /\ output_entry' = IF output_entry # EmptyText
                       THEN WithExt(output_entry, FormatExt(f))
                       ELSE output_entry
    /\ UNCHANGED <<image_files, convert_btn, uiVars, warning, after_queue, w,
                   last_op>>

\* ------------------------------------------------- the conversion orchestrator
SetThread(t, rec) == w' = [w EXCEPT ![t] = rec]

\* start_conversion that leaves the button enabled.
start_conversion_enabled ==
    IF image_files = <<>> \/ Strip(output_entry) = EmptyText
    THEN /\ warning' = IF image_files = <<>> THEN "no_images" ELSE "no_output"
         /\ UNCHANGED <<image_files, selected_format, output_entry, convert_btn,
                        uiVars, after_queue, w, ops, last_op>>
    ELSE /\ \E t \in Threads : ~Active(t)
         /\ LET t == Min({u \in Threads : ~Active(u)}) IN
            SetThread(t, [IdleThread EXCEPT
                            !.pc = "begin",
                            !.out = Strip(output_entry),
                            !.req = [entries |-> image_files,
                                     fmt |-> selected_format]])
         /\ progress_var' = <<0, 1>>
         /\ UNCHANGED <<image_files, selected_format, output_entry, convert_btn,
                        status_label, log_text, warning, after_queue, ops,
                        last_op>>

\* start_conversion: the two validations, then the button is disabled, the
\* progress reset and the worker thread started with the stripped path.
start_conversion ==
    IF image_files = <<>>
    THEN \* messagebox.showwarning("没有可转换的图片文件！")
         /\ warning' = "no_images"
         /\ UNCHANGED <<image_files, selected_format, output_entry, convert_btn,
                        uiVars, after_queue, w, ops, last_op>>
    ELSE IF Strip(output_entry) = EmptyText
    THEN \* messagebox.showwarning("请设置输出路径！")
         /\ warning' = "no_output"
         /\ UNCHANGED <<image_files, selected_format, output_entry, convert_btn,
                        uiVars, after_queue, w, ops, last_op>>
    ELSE /\ \E t \in Threads : ~Active(t)
         /\ LET t == Min({u \in Threads : ~Active(u)}) IN
            SetThread(t, [IdleThread EXCEPT
                            !.pc = "begin",
                            !.out = Strip(output_entry),
                            !.req = [entries |-> image_files,
                                     fmt |-> selected_format]])
         /\ convert_btn' = "disabled"
         /\ progress_var' = <<0, 1>>
         /\ UNCHANGED <<image_files, selected_format, output_entry,
                        status_label, log_text, warning, after_queue, ops,
                        last_op>>

\* A click on self.convert_btn (command=self.start_conversion): Tk runs the
\* command of a button only while the button is not disabled.
ClickConvert ==
    /\ ~DialogOpen
    /\ IF convert_btn = "disabled" THEN UNCHANGED vars ELSE start_conversion

\* The user closes the warning box: start_conversion returns.
AckWarning ==
    /\ warning # "none"
    /\ warning' = "none"
    /\ UNCHANGED <<image_files, selected_format, output_entry, convert_btn,
                   uiVars, after_queue, w, ops, last_op>>

\* convert_images, first statement: format_type = self.selected_format.get()
Begin(t) ==
    /\ w[t].pc = "begin"
    /\ SetThread(t, [w[t] EXCEPT !.pc = "export", !.fmt = selected_format])
    /\ UNCHANGED <<image_files, selected_format, output_entry, convert_btn,
                   uiVars, warning, after_queue, ops, last_op>>

\* convert_to_pdf / convert_to_ppt up to the loop: the option text is read
\* (quality or layout; it does not change which outcomes the loop body has),
\* the start is logged and total_files = len(self.image_files).
ExportStart(t) ==
    /\ w[t].pc = "export"
    /\ WorkerRoom
    /\ log("start")
    /\ SetThread(t, [w[t] EXCEPT !.pc = "fetch", !.total = Len(image_files)])
    /\ UNCHANGED <<image_files, selected_format, output_entry, convert_btn,
                   uiVars, warning, ops, last_op>>

\* One step of `for i, filepath in enumerate(self.image_files)`: the list
\* iterator yields the entry at its index or is exhausted; then
\* os.path.getsize(filepath), outside any try, the log line and the status
\* text, which the worker sets itself.
Fetch(t) ==
    /\ w[t].pc = "fetch"
    /\ IF w[t].i < Len(IterList(t))
       THEN LET filepath == IterList(t)[w[t].i + 1]
                next == [w[t] EXCEPT
                           !.i = @ + 1,
                           !.iter = IF @ = "unbound" THEN "shared" ELSE @,
                           !.cur = filepath]
            IN
            \/ /\ WorkerRoom
               /\ log("item")
               /\ status_label' = "processing"
               /\ SetThread(t, [next EXCEPT !.pc = "attempt"])
               /\ UNCHANGED <<progress_var, log_text>>
            \/ \* os.path.getsize raises OSError: the file has left the folder
               /\ SetThread(t, Raise(next, "getsize"))
               /\ UNCHANGED <<uiVars, after_queue>>
       ELSE /\ SetThread(t, [w[t] EXCEPT !.pc = "save"])
            /\ UNCHANGED <<uiVars, after_queue>>
    /\ UNCHANGED <<image_files, selected_format, output_entry, convert_btn,
                   warning, ops, last_op>>

\* What can happen to one entry, in both exporters: the image cannot be
\* opened or (PDF, compressed) encoded, which raises before the page or slide
\* exists ("open_fail"); page.insert_image / shapes.add_picture raises after
\* new_page / add_slide ("insert_fail"); or the image is placed ("ok").
AttemptResults == {"open_fail", "insert_fail", "ok"}

Page(file, image) == [src |-> file, image |-> image]

\* The document after one entry: new_page / add_slide comes before the call
\* that inserts the image.
PagesAfter(pages, file, r) ==
    IF r \in {"insert_fail", "ok"} THEN Append(pages, Page(file, r = "ok"))
    ELSE pages

\* The body of the loop after the status text: the try block, its except
\* clause (log a warning, continue) and, when nothing was raised, the
\* progress callback.  A total_files of 0 makes the progress division raise.
Attempt(t) ==
    /\ w[t].pc = "attempt"
    /\ WorkerRoom
    /\ \E r \in AttemptResults :
          LET done == [w[t] EXCEPT
                         !.pages = PagesAfter(@, w[t].cur, r),
                         !.attempts = Append(@, [file |-> w[t].cur, ok |-> r = "ok"])]
          IN
          IF r # "ok"
          THEN /\ log("warning")
               /\ SetThread(t, [done EXCEPT !.pc = "fetch"])
          ELSE IF w[t].total = 0
          THEN /\ SetThread(t, Raise(done, "progress"))
               /\ UNCHANGED after_queue
          ELSE /\ after_queue' = Append(after_queue,
                                        ProgressEvent(w[t].i, w[t].total))
               /\ SetThread(t, [done EXCEPT !.pc = "fetch",
                                            !.emitted = Append(@, w[t].i - 1)])
    /\ UNCHANGED <<image_files, selected_format, output_entry, convert_btn,
                   uiVars, warning, ops, last_op>>

\* After the loop: the save is logged, then pdf_document.save / prs.save
\* writes the document or raises.
Save(t) ==
    /\ w[t].pc = "save"
    /\ WorkerRoom
    /\ log("saving")
    /\ \/ SetThread(t, [w[t] EXCEPT !.pc = "saved", !.saved = TRUE])
       \/ SetThread(t, Raise(w[t], "write"))
    /\ UNCHANGED <<image_files, selected_format, output_entry, convert_btn,
                   uiVars, warning, ops, last_op>>

\* The report lines of the exporter (the size of the file just written is
\* read; that file is there), then convert_images' success branch: the log
\* line, the status text and messagebox.showinfo.
Succeed(t) ==
    /\ w[t].pc = "saved"
    /\ WorkerRoom
    /\ log("done")
    /\ status_label' = "success"
    /\ SetThread(t, [ExitExporter(w[t]) EXCEPT
                       !.pc = "showinfo", !.outcomes = Append(@, "succeeded")])
    /\ UNCHANGED <<image_files, selected_format, output_entry, convert_btn,
                   progress_var, log_text, warning, ops, last_op>>

\* convert_images' except clause: the log line, the status text and
\* messagebox.showerror with the cause.
Fail(t) ==
    /\ w[t].pc = "except"
    /\ WorkerRoom
    /\ log("failed")
    /\ status_label' = "failed"
    /\ SetThread(t, [w[t] EXCEPT !.pc = "showerror",
                                 !.outcomes = Append(@, "failed")])
    /\ UNCHANGED <<image_files, selected_format, output_entry, convert_btn,
                   progress_var, log_text, warning, ops, last_op>>

\* The user closes the message box of the outcome.
AckResult(t) ==
    /\ w[t].pc \in {"showinfo", "showerror"}
    /\ SetThread(t, [w[t] EXCEPT !.pc = "finally"])
    /\ UNCHANGED <<image_files, selected_format, output_entry, convert_btn,
                   uiVars, warning, after_queue, ops, last_op>>

\* convert_images without its finally clause: the thread just ends.
FinallyNothing(t) ==
    /\ w[t].pc = "finally"
    /\ SetThread(t, IdleThread)
    /\ UNCHANGED <<image_files, selected_format, output_entry, convert_btn,
                   uiVars, warning, after_queue, ops, last_op>>

\* convert_images' finally clause: the callback that enables the button is
\* registered and the thread ends.
Finally(t) ==
    /\ w[t].pc = "finally"
    /\ WorkerRoom
    /\ after_queue' = Append(after_queue, EnableEvent)
    /\ SetThread(t, IdleThread)
    /\ UNCHANGED <<image_files, selected_format, output_entry, convert_btn,
                   uiVars, warning, ops, last_op>>

\* The Tk main loop runs the oldest root.after(0, ...) callback.
RunCallback ==
    /\ after_queue # <<>>
    /\ after_queue' = Tail(after_queue)
    /\ LET e == Head(after_queue) IN
       CASE e.kind = "log" ->
              /\ log_text' = "text"
              /\ UNCHANGED <<progress_var, convert_btn>>
         [] e.kind = "progress" ->
              /\ progress_var' = <<e.num, e.den>>
              /\ UNCHANGED <<log_text, convert_btn>>
         [] OTHER ->
              /\ convert_btn' = "normal"
              /\ UNCHANGED <<log_text, progress_var>>
    /\ UNCHANGED <<image_files, selected_format, output_entry, status_label,
                   warning, w, ops, last_op>>

\* ------------------------------------------------- the placement of a picture
\* The slide of Presentation()'s default template, in EMU (prs.slide_width,
\* prs.slide_height), and the EMU of an inch (Inches).
SlideWidth == 9144000
SlideHeight == 6858000
EmuPerInch == 914400

\* The texts of the layout combobox: "全屏填充", "图片居中", "空白页".
Layouts == {"fit", "center", "blank"}

\* Pixel widths and heights of an image.
Pixels == 1..MaxPixels

\* int(x / 2): division, then truncation toward zero.
IntHalf(x) == IF x >= 0 THEN x \div 2 ELSE -((-x) \div 2)

\* ratio = min(slide_width / original_width, slide_height / original_height),
\* kept as the fraction <<numerator, denominator>>.
FitRatio(ow, oh) ==
    IF SlideWidth * oh <= SlideHeight * ow THEN <<SlideWidth, ow>>
    ELSE <<SlideHeight, oh>>

\* int(pixels * ratio)
Scaled(pixels, ratio) == (pixels * ratio[1]) \div ratio[2]

\* left, top, img_width and img_height as convert_to_ppt passes them to
\* slide.shapes.add_picture, which reads all four as EMU.
Placement(layout, ow, oh) ==
    CASE layout = "fit" ->
           LET ratio == FitRatio(ow, oh)
               img_width == Scaled(ow, ratio)
               img_height == Scaled(oh, ratio)
           IN [left |-> IntHalf(SlideWidth - img_width),
               top |-> IntHalf(SlideHeight - img_height),
               width |-> img_width, height |-> img_height]
      [] layout = "center" ->
           [left |-> IntHalf(SlideWidth - ow),
            top |-> IntHalf(SlideHeight - oh),
            width |-> ow, height |-> oh]
      [] OTHER ->
           [left |-> EmuPerInch \div 2, top |-> EmuPerInch \div 2,
            width |-> ow, height |-> oh]

\* The placement part of one pass of convert_to_ppt's loop, for an image of
\* ow x oh pixels under a layout: what add_picture is called with.
add_picture(layout, ow, oh) ==
    /\ last_op' = [op |-> "add_picture", layout |-> layout, ow |-> ow, oh |-> oh,
                   at |-> Placement(layout, ow, oh)]
    /\ UNCHANGED <<image_files, selected_format, output_entry, convert_btn,
                   uiVars, warning, after_queue, w, ops>>

\* ------------------------------------------------------------ specifications
WorkerStep(t) ==
    \/ Begin(t)
    \/ ExportStart(t)
    \/ Fetch(t)
    \/ Attempt(t)
    \/ Save(t)
    \/ Succeed(t)
    \/ Fail(t)
    \/ Finally(t)

Next ==
    \/ \E S \in SUBSET RowsOf(MaxFiles), shown \in BOOLEAN : move_up(FALSE, S, shown)
    \/ \E S \in SUBSET RowsOf(MaxFiles), shown \in BOOLEAN : move_down(FALSE, S, shown)
    \/ \E S \in SUBSET RowsOf(MaxFiles), shown \in BOOLEAN :
          remove_selected(FALSE, S, shown)
    \/ \E d \in Folders, found \in FoundFiles, shown \in BOOLEAN :
          scan_folder(FALSE, d, found, shown)
    \/ \E p \in OutputInputs : browse_output(p)
    \/ \E f \in Formats : on_format_change(f)
    \/ ClickConvert
    \/ AckWarning
    \/ \E t \in Threads : WorkerStep(t)
    \/ \E t \in Threads : AckResult(t)
    \/ RunCallback

Spec == Init /\ [][Next]_vars

\* The scheduler runs a thread that can run, and the Tk main loop (also the
\* one of an open message box) runs the callbacks that are due.
FairSpec ==
    /\ Spec
    /\ \A t \in Threads : WF_vars(WorkerStep(t))
    /\ WF_vars(RunCallback)

\* The catalog alone, after a scan of the folder.
InitCatalog ==
    /\ \E present \in SUBSET CatFiles : image_files = SortedSeq(present)
    /\ selected_format = "PDF"
    /\ output_entry = IF image_files # <<>> THEN AutoOutput("PDF") ELSE EmptyText
    /\ convert_btn = "normal"
    /\ progress_var = <<0, 1>>
    /\ status_label = "ready"
    /\ log_text = "text"
    /\ warning = "none"
    /\ after_queue = <<>>
    /\ w = [t \in Threads |-> IdleThread]
    /\ ops = 0
    /\ last_op = NoOp

NextCatalog ==
    \/ \E rows \in 0..MaxCatFiles, S \in SUBSET RowsOf(MaxCatFiles) :
          reverse_selection(TRUE, rows, S)
    \/ \E S \in SUBSET RowsOf(MaxCatFiles) : move_up(TRUE, S, TRUE)
    \/ \E S \in SUBSET RowsOf(MaxCatFiles) : move_down(TRUE, S, TRUE)
    \/ \E S \in SUBSET RowsOf(MaxCatFiles) : remove_selected(TRUE, S, TRUE)
    \/ \E d \in Folders, found \in FoundCatFiles : scan_folder(TRUE, d, found, TRUE)
    \/ RunCallback

SpecCatalog == InitCatalog /\ [][NextCatalog]_vars

\* The placement alone: any layout, any image size.
NextLayout ==
    \E layout \in Layouts, ow \in Pixels, oh \in Pixels : add_picture(layout, ow, oh)

SpecLayout == Init /\ [][NextLayout]_vars

\* ------------------------------------------------------------------ claims
\* The positions of a thread inside convert_to_pdf / convert_to_ppt.
InExporter(t) == w[t].pc \in {"export", "fetch", "attempt", "save", "saved"}
\* The orchestrator is Idle: no run in progress and the button can be pressed.
Idle == convert_btn = "normal" /\ \A t \in Threads : ~Active(t)
\* A path text that is empty or holds white space only.
Blank(p) == p.ext = "" /\ \A k \in 1..Len(p.stem) : p.stem[k] = " "
\* The paths of the entries a run has attempted, in the order of the attempts.
Attempted(t) == [k \in 1..Len(w[t].attempts) |-> w[t].attempts[k].file]
\* The entries of a sequence at the 0-based positions outside idxs, in order.
Others(seq, idxs) ==
    LET keep == SortedSeq(RowsOf(Len(seq)) \ idxs)
    IN [k \in 1..Len(keep) |-> seq[keep[k] + 1]]

\* C1: at most one export pipeline runs at any time: while a run started by
\* start_conversion has not ended, no second worker thread exists and the
\* button through which a conversion is requested stays disabled, so a further
\* request is dropped.
C1_OnePipeline ==
    /\ Cardinality({t \in Threads : Active(t)}) <= 1
    /\ (\E t \in Threads : Active(t)) => convert_btn = "disabled"

\* C1 witness: a run is in the middle of its loop and the button is disabled.
C1_Witness ==
    \E t \in Threads : w[t].pc = "attempt" /\ w[t].i = 2 /\ convert_btn = "disabled"

\* C2: a request made with an empty catalog or an empty or white-space-only
\* output path is rejected at once: no thread starts and an Idle orchestrator
\* stays Idle; a thread only ever runs for a request whose catalog was not
\* empty and whose output path was set.
C2_Validated ==
    /\ [](\A t \in Threads :
            /\ Active(t) => ~Blank(w[t].out)
            /\ (w[t].pc = "begin" \/ InExporter(t)) => w[t].req.entries # <<>>)
    /\ [][(image_files = <<>> \/ Blank(output_entry)) =>
            /\ \A t \in Threads : Active(t)' => Active(t)
            /\ Idle => Idle']_vars

\* C2 witness: the request for a non-empty catalog with a white-space-only
\* output path has been rejected: the warning is shown, nothing runs.
C2_Witness ==
    /\ warning = "no_output"
    /\ image_files # <<>>
    /\ output_entry # EmptyText
    /\ Idle

\* C3, the outcome of a run: a thread reports nothing before its message box,
\* and then exactly one outcome, "succeeded" exactly when the document was
\* written and "failed" exactly when an exception was caught.
C3_OneOutcome ==
    \A t \in Threads :
        IF w[t].pc \in {"showinfo", "showerror", "finally"}
        THEN /\ Len(w[t].outcomes) = 1
             /\ (w[t].outcomes[1] = "succeeded") <=> (w[t].saved /\ w[t].exc = "none")
             /\ (w[t].outcomes[1] = "failed") <=> (w[t].exc # "none")
             /\ (w[t].pc = "showinfo") => w[t].outcomes[1] = "succeeded"
             /\ (w[t].pc = "showerror") => w[t].outcomes[1] = "failed"
        ELSE w[t].outcomes = <<>>

\* C3: every accepted run goes Idle -> Running -> {Succeeded, Failed}: it
\* reaches the message box of exactly one outcome, and once that box is closed
\* the orchestrator is Idle again.
C3_Lifecycle ==
    /\ []C3_OneOutcome
    /\ \A t \in Threads :
          (w[t].pc = "begin") ~> (w[t].pc \in {"showinfo", "showerror"})
    /\ \A t \in Threads : (w[t].pc = "finally") ~> Idle

\* C3 witness: after the outcome of a run a new request has been accepted.
C3_Witness ==
    /\ status_label \in {"success", "failed"}
    /\ \E t \in Threads : w[t].pc = "begin"

\* C4: the request is immutable once submitted: the entries a run exports,
\* their order and the output format are those start_conversion saw.
C4_RequestImmutable ==
    \A t \in Threads :
        w[t].pc \in {"save", "saved"} =>
            /\ Attempted(t) = w[t].req.entries
            /\ w[t].fmt = w[t].req.fmt

\* C5: only a failure of the final write of the document ends a run in
\* Failed; a failure confined to one entry never does.
C5_OnlyWriteFails ==
    \A t \in Threads :
        (w[t].outcomes # <<>> /\ w[t].outcomes[1] = "failed") => w[t].exc = "write"

\* C6: the pages (slides) of the written output are exactly the entries
\* processed successfully, one per entry and in order: an entry that was
\* skipped contributes no page, so there are (total - skipped) pages.
C6_PagesAreSuccesses ==
    \A t \in Threads :
        w[t].pc = "saved" =>
            LET good == SelectSeq(w[t].attempts, LAMBDA a : a.ok)
                skipped == Len(w[t].attempts) - Len(good)
            IN /\ w[t].pages = [k \in 1..Len(good) |-> Page(good[k].file, TRUE)]
               /\ Len(w[t].pages) = Len(w[t].attempts) - skipped

\* C7: one progress event per entry attempted, succeeded or skipped, with the
\* indices 0, 1, ... in order; a run that reaches the final write has
\* reported progress for all total entries.
C7_ProgressPerEntry ==
    \A t \in Threads :
        w[t].pc \in {"fetch", "save"} =>
            /\ w[t].emitted = [k \in 1..Len(w[t].attempts) |-> k - 1]
            /\ w[t].pc = "save" => Len(w[t].emitted) = w[t].total

\* A step of thread t itself (start_conversion and the closing of a message
\* box are steps of the presentation thread and the user).
ThreadMoved(t) ==
    /\ w[t].pc \notin {"idle", "showinfo", "showerror"}
    /\ w'[t].pc # w[t].pc

\* C8: the worker never mutates UI-visible state itself: a step of a worker
\* thread leaves the progress value, the status text and the log text as they
\* are and opens no message box.
C8_WorkerLeavesUI ==
    [][\A t \in Threads :
          ThreadMoved(t) =>
              /\ UNCHANGED <<progress_var, status_label, log_text>>
              /\ w'[t].pc \notin {"showinfo", "showerror"}]_vars

\* The number of leading rows that are all selected (the entries that cannot
\* move up), and of trailing rows that are all selected.
LeadingBlock(S) == Min({k \in 0..Cardinality(S) : k \notin S})
TrailingBlock(S, n) ==
    Min({k \in 0..Cardinality(S) : (n - 1 - k) \notin S})

C10_Complement ==
    last_op.op = "reverse_selection" =>
        last_op.after = RowsOf(last_op.rows) \ last_op.sel

\* C11: a scan whose folder entry is empty, names nothing that exists or
\* names something that is no directory leaves the catalog empty, whatever it
\* held before.
C11_InvalidScanEmpties ==
    (/\ last_op.op = "scan_folder"
     /\ (FolderStripEmpty(last_op.arg) \/ ~IsDir(last_op.arg)))
        => image_files = <<>>

\* C12: removeAt deletes exactly the entries at the selected rows: the
\* catalog afterwards is the sequence of the entries at the other rows in
\* their original order, and it is shorter by the number of selected rows.
C12_RemovesSelected ==
    last_op.op = "remove_selected" =>
        /\ image_files = Others(last_op.files, last_op.sel)
        /\ Len(image_files) = Len(last_op.files) - Cardinality(last_op.sel)

\* C12 witness: rows 1 and 3 of a catalog of four entries have been removed.
C12_Witness ==
    /\ last_op.op = "remove_selected"
    /\ last_op.sel = {1, 3}
    /\ Len(last_op.files) = 4
    /\ Len(image_files) = 2

\* The EMU of a point: 72 points are an inch.
EmuPerPt == EmuPerInch \div 72

\* The margins on one axis are equal, up to the one EMU of the truncation.
EqualMargins(canvas, offset, size) ==
    (canvas - size - offset) - offset \in {0, 1}

\* C13: the placement the slide exporter computes is the specified one.  Blank
\* and Centered place the image at native size, one point per pixel, Blank at
\* (0.5 inch, 0.5 inch) and Centered with equal margins on both axes;
\* FullBleedFit scales both dimensions by min(canvasW/imgW, canvasH/imgH), so
\* that both fit the canvas and one equals it, and centers the image.
C13_PlacementAsSpecified ==
    last_op.op = "add_picture" =>
        LET at == last_op.at
            ow == last_op.ow
            oh == last_op.oh
            native == at.width = ow * EmuPerPt /\ at.height = oh * EmuPerPt
            centered == /\ EqualMargins(SlideWidth, at.left, at.width)
                        /\ EqualMargins(SlideHeight, at.top, at.height)
        IN CASE last_op.layout = "blank" ->
                  /\ native
                  /\ at.left = EmuPerInch \div 2
                  /\ at.top = EmuPerInch \div 2
             [] last_op.layout = "center" -> native /\ centered
             [] OTHER ->
                  /\ at.width <= SlideWidth
                  /\ at.height <= SlideHeight
                  /\ at.width = SlideWidth \/ at.height = SlideHeight
                  /\ (at.width = SlideWidth => at.height = (oh * SlideWidth) \div ow)
                  /\ (at.height = SlideHeight => at.width = (ow * SlideHeight) \div oh)
                  /\ centered

====
